---------------------------- MODULE Spec2Model ----------------------------
(***************************************************************************)
(* A model of pienIRC: the IRC message codec of src/pienirc/src/protocol.rs *)
(* (Message::new, Message::to_bytes, Message::parse, Message::calc_len) and *)
(* the buffered receive loop of src/pienirc-tokio/src/lib.rs.               *)
(*                                                                         *)
(* A byte is a number 0..255.  A byte slice, and a Rust String (its UTF-8   *)
(* bytes, so that String::len is Len), is a sequence of bytes.  Option<T>   *)
(* is a set with at most one element: None == {} and Some(v) == {v}.        *)
(***************************************************************************)
EXTENDS Integers, Sequences, FiniteSets

VARIABLES
    \* ---- Transport (src/pienirc-tokio/src/lib.rs) ----
    stream,        \* bytes the peer has sent that read_buf has not yet returned
    read_buffer,   \* Transport.read_buffer
    pc,            \* position of receive(): "idle", "parse" (top of the loop), "read" (awaiting read_buf)
    parsed,        \* what the last Message::parse of the running receive() returned: its kind
    nread,         \* what the last read_buf of the running receive() returned, -1 before any
    result,        \* what the last receive() returned
    delivered,     \* the messages receive() has returned, in order
    expected,      \* the messages of the frames the peer sent (None for a wire that is not frames)
    \* ---- Codec driver (src/pienirc/src/protocol.rs) ----
    args,          \* the four arguments handed to Message::new / new_unchecked, or None
    newResult,     \* Message::new(args), or None before the call
    wire,          \* new_unchecked(args).to_bytes(), or None before the call
    input,         \* the slice handed to Message::parse, or None
    parseResult    \* Message::parse(input), or None before the call

vars == << stream, read_buffer, pc, parsed, nread, result, delivered, expected,
           args, newResult, wire, input, parseResult >>

---------------------------------------------------------------------------
(* Bytes the code names.                                                   *)
SP == 32
CR == 13
LF == 10
COLON == 58
BANG == 33
AT == 64
PLUS == 43
ZERO == 48
TAB == 9
FF == 12
\* Other bytes of the inputs: letters, a digit, and a byte that is no UTF-8.
LetterA == 65
LetterB == LetterA + 1
LetterQ == 113
DigitOne == ZERO + 1
BadByte == 255

Max(a, b) == IF a >= b THEN a ELSE b

None == {}
Some(v) == {v}
Unwrap(o) == CHOOSE v \in o : TRUE

CRLF == << CR, LF >>

Repeat(b, n) == [i \in 1..n |-> b]

RECURSIVE Concat(_)
\* the sequences of ss joined, by halves
Concat(ss) ==
    IF ss = << >> THEN << >>
    ELSE IF Len(ss) = 1 THEN ss[1]
    ELSE LET h == Len(ss) \div 2 IN
         Concat(SubSeq(ss, 1, h)) \o Concat(SubSeq(ss, h + 1, Len(ss)))

\* the least element of a non-empty set of numbers
Least(S) == CHOOSE i \in S : \A j \in S : i <= j

\* s[from..] (1-based), the empty sequence when from is past the end
Drop(s, n) == SubSeq(s, n + 1, Len(s))

---------------------------------------------------------------------------
(* The data model: Command, Prefix, UserMask, Message.                     *)
Numeric(n) == [kind |-> "Numeric", n |-> n]
General(s) == [kind |-> "General", text |-> s]
Server(s) == [kind |-> "Server", name |-> s]
User(n, u, s) == [kind |-> "User", nickname |-> n, user |-> u, server |-> s]

new_unchecked(prefix, command, parameters, last_parameter) ==
    [prefix |-> prefix, command |-> command,
     parameters |-> parameters, last_parameter |-> last_parameter]

\* Result<T, Error>
Ok(v) == [ok |-> TRUE, value |-> v]
Err(e) == [ok |-> FALSE, error |-> e]

---------------------------------------------------------------------------
(* Message::new and its helpers.                                           *)
Contains(s, b) == \E i \in 1..Len(s) : s[i] = b

\* fn sp(s): s.contains(' ') || s.contains('\r') || s.contains('\n')
sp(s) == Contains(s, SP) \/ Contains(s, CR) \/ Contains(s, LF)

\* str::starts_with(':')
starts_with_colon(s) == Len(s) >= 1 /\ s[1] = COLON

\* str::contains("\r\n")
contains_crlf(s) == \E i \in 1..(Len(s) - 1) : s[i] = CR /\ s[i + 1] = LF

\* The numbers of the code.
MaxMessageLen == 512
MaxContentLen == 510
MaxParameters == 14
MinRepetitions == 1
MaxRepetitions == 14
NumericWidth == 3
U16Max == 65535

\* Message::calc_len
calc_len(prefix, command, parameters, last_parameter) ==
    2
    + (IF prefix = None THEN 0
       ELSE LET p == Unwrap(prefix) IN
            IF p.kind = "Server" THEN Len(p.name) + 2
            ELSE Len(p.nickname) + Len(p.user) + Len(p.server) + 4)
    + (IF command.kind = "General" THEN Len(command.text) ELSE 3)
    + (IF parameters = None THEN 0
       ELSE LET ps == Unwrap(parameters) IN
            Len(Concat(ps)) + Len(ps))
    + (IF last_parameter = None THEN 0 ELSE Len(Unwrap(last_parameter)) + 2)

\* The first match of Message::new: the prefix.
prefix_check(prefix) ==
    IF prefix = None THEN Ok("unit")
    ELSE LET p == Unwrap(prefix) IN
         IF p.kind = "Server" /\ sp(p.name) THEN Err("PrefixValidation")
         ELSE IF p.kind = "User" /\ (sp(p.nickname) \/ sp(p.user) \/ sp(p.server))
              THEN Err("PrefixValidation")
         ELSE Ok("unit")

\* The second match of Message::new: the command.
command_check(command) ==
    IF command.kind = "General" /\ sp(command.text) THEN Err("PrefixValidation")
    ELSE Ok("unit")

\* The third match of Message::new: the middle parameters.
parameters_check(parameters) ==
    IF parameters = None THEN Ok("unit")
    ELSE LET p == Unwrap(parameters) IN
         IF \E i \in 1..Len(p) : sp(p[i]) \/ starts_with_colon(p[i])
         THEN Err("CommandValidation")
         ELSE IF Len(p) > MaxParameters THEN Err("SimpleParameterValidation")
         ELSE Ok("unit")

\* The fourth match of Message::new: the last parameter.
last_parameter_check(last_parameter) ==
    IF last_parameter # None /\ contains_crlf(Unwrap(last_parameter))
    THEN Err("LastParameterValidation")
    ELSE Ok("unit")

\* Message::new: each match is followed by `?`, so the first Err returns.
Message_new(prefix, command, parameters, last_parameter) ==
    LET c1 == prefix_check(prefix)
        c2 == command_check(command)
        c3 == parameters_check(parameters)
        c4 == last_parameter_check(last_parameter) IN
    IF ~c1.ok THEN c1
    ELSE IF ~c2.ok THEN c2
    ELSE IF ~c3.ok THEN c3
    ELSE IF ~c4.ok THEN c4
    ELSE IF calc_len(prefix, command, parameters, last_parameter) > MaxMessageLen
         THEN Err("MessageTooLong")
    ELSE Ok([prefix |-> prefix, command |-> command,
             parameters |-> parameters, last_parameter |-> last_parameter])

---------------------------------------------------------------------------
(* Message::to_bytes.                                                      *)
RECURSIVE Digits(_)
\* the decimal digits of n, as Display for u16 writes them
Digits(n) == IF n < 10 THEN << ZERO + n >> ELSE Digits(n \div 10) \o << ZERO + (n % 10) >>

\* The pieces write!(b, "{:03}", n) hands to the writer: one fill character at a
\* time, then the digits.
format_03(n) ==
    LET d == Digits(n) IN
    [i \in 1..(IF Len(d) < NumericWidth THEN NumericWidth - Len(d) ELSE 0) |-> << ZERO >>]
    \o << d >>

\* The pieces the prefix match of to_bytes writes.
write_prefix(prefix) ==
    IF prefix = None THEN << >>
    ELSE LET p == Unwrap(prefix) IN
         IF p.kind = "Server" THEN << << COLON >>, p.name, << SP >> >>
         ELSE << << COLON >>, p.nickname, << BANG >>, p.user, << AT >>, p.server >>

\* The pieces the command match of to_bytes writes.
write_command(command) ==
    IF command.kind = "Numeric" THEN format_03(command.n) ELSE << command.text >>

\* The pieces the parameter loop of to_bytes writes.
write_parameters(parameters) ==
    IF parameters = None THEN << >>
    ELSE LET ps == Unwrap(parameters) IN
         Concat([i \in 1..Len(ps) |-> << << SP >>, ps[i] >>])

\* The pieces the last-parameter write of to_bytes writes.
write_last_parameter(last_parameter) ==
    IF last_parameter = None THEN << >>
    ELSE << << SP, COLON >>, Unwrap(last_parameter) >>

\* Every piece written to the Vec, in order, the terminator last.
pieces(m) ==
    write_prefix(m.prefix) \o write_command(m.command)
    \o write_parameters(m.parameters) \o write_last_parameter(m.last_parameter)
    \o << CRLF >>

RECURSIVE capacity_after(_, _, _)
\* Vec::with_capacity(cap), then one extend_from_slice per piece: a piece that does
\* not fit grows the Vec to max(2 * cap, required), at least 8 bytes.
capacity_after(cap, len, ps) ==
    IF ps = << >> THEN cap
    ELSE LET need == len + Len(Head(ps))
             grown == IF need <= cap THEN cap
                      ELSE Max(8, Max(2 * cap, need)) IN
         capacity_after(grown, need, Tail(ps))

\* Message::to_bytes.  Writing to a Vec never fails, so Error::Serialization is
\* never built.
to_bytes(m) ==
    LET len == calc_len(m.prefix, m.command, m.parameters, m.last_parameter) IN
    IF len > MaxMessageLen THEN Err("MessageTooLong")
    ELSE Ok([bytes |-> Concat(pieces(m)),
             capacity |-> capacity_after(len, 0, pieces(m))])

---------------------------------------------------------------------------
(* Message::parse: the regex R.                                            *)
(* R is matched as the regex crate matches it: anchored at the start of the *)
(* input by ^, not anchored at its end, and among the matches the one a     *)
(* backtracking search finds first (every quantifier of R is greedy, the    *)
(* first alternative is preferred).  Each X_try below walks one quantifier  *)
(* from its longest repetition (hi) down to its shortest (lo), the upper     *)
(* half of the lengths before the lower, and returns the first for which the*)
(* rest of R matches.  R is a Unicode regex over bytes: a negated class     *)
(* matches one scalar value, here an ASCII byte, never a byte that is no    *)
(* UTF-8.                                                                   *)

\* [^...]: one scalar value that is none of x
NotIn(b, x) == b < 128 /\ b \notin x

\* how many bytes of `in` from position p on are each a [^x]
Run(in, p, x) ==
    LET stops == {i \in p..Len(in) : ~NotIn(in[i], x)} IN
    IF stops = {} THEN Max(0, Len(in) + 1 - p) ELSE Least(stops) - p

\* how many bytes of `in` from position p on are spaces
SpaceRun(in, p) ==
    LET stops == {i \in p..Len(in) : in[i] # SP} IN
    IF stops = {} THEN Max(0, Len(in) + 1 - p) ELSE Least(stops) - p

NoMatch == [ok |-> FALSE]
NoCaptures == [nick |-> None, user |-> None, server |-> None, serverprefix |-> None,
               command |-> None, parameters |-> None, lastparam |-> None]

\* \r\n , the end of R: the match ends after byte p + 1
match_crlf(in, p, c) ==
    IF p + 1 <= Len(in) /\ in[p] = CR /\ in[p + 1] = LF
    THEN [ok |-> TRUE, end |-> p + 1, caps |-> c]
    ELSE NoMatch

RECURSIVE lastparam_try(_, _, _, _, _)
\* (?<lastparam>[^\r\n]*) of a length hi down to lo, from byte p, then \r\n
lastparam_try(in, p, lo, hi, c) ==
    IF lo > hi THEN NoMatch
    ELSE IF lo < hi
         THEN LET mid == (lo + hi) \div 2
                  r == lastparam_try(in, p, mid + 1, hi, c) IN
              IF r.ok THEN r ELSE lastparam_try(in, p, lo, mid, c)
    ELSE match_crlf(in, p + hi, [c EXCEPT !.lastparam = Some(SubSeq(in, p, p + hi - 1))])

\* :? then the last parameter
colon_opt(in, p, c) ==
    LET with == IF p <= Len(in) /\ in[p] = COLON
                THEN lastparam_try(in, p + 1, 0, Run(in, p + 1, {CR, LF}), c)
                ELSE NoMatch IN
    IF with.ok THEN with ELSE lastparam_try(in, p, 0, Run(in, p, {CR, LF}), c)

RECURSIVE last_spaces_try(_, _, _, _, _)
\* \ + of a length hi down to lo, from byte p, then :? and the last parameter
last_spaces_try(in, p, lo, hi, c) ==
    IF lo > hi THEN NoMatch
    ELSE IF lo < hi
         THEN LET mid == (lo + hi) \div 2
                  r == last_spaces_try(in, p, mid + 1, hi, c) IN
              IF r.ok THEN r ELSE last_spaces_try(in, p, lo, mid, c)
    ELSE colon_opt(in, p + hi, c)

\* (?: \ + :? (?<lastparam>[^\r\n]*) )? \r\n
last_group(in, p, c) ==
    LET r == last_spaces_try(in, p, 1, SpaceRun(in, p), c) IN
    IF r.ok THEN r ELSE match_crlf(in, p, c)

RECURSIVE repetitions(_, _, _, _, _)
RECURSIVE rep_spaces_try(_, _, _, _, _, _, _)
RECURSIVE rep_token_try(_, _, _, _, _, _, _)
\* (?: \ * [^:\ ] [^\ ]* ){1,14} with n repetitions matched, the group having
\* started at byte `start` and the next byte being q
repetitions(in, start, q, n, c) ==
    LET more == IF n < MaxRepetitions
                THEN rep_spaces_try(in, start, q, n, 0, SpaceRun(in, q), c)
                ELSE NoMatch IN
    IF more.ok THEN more
    ELSE IF n >= MinRepetitions
         THEN last_group(in, q, [c EXCEPT !.parameters = Some(SubSeq(in, start, q - 1))])
    ELSE NoMatch

\* \ * of a length hi down to lo, from byte q, then [^:\ ]
rep_spaces_try(in, start, q, n, lo, hi, c) ==
    IF lo > hi THEN NoMatch
    ELSE IF lo < hi
         THEN LET mid == (lo + hi) \div 2
                  r == rep_spaces_try(in, start, q, n, mid + 1, hi, c) IN
              IF r.ok THEN r ELSE rep_spaces_try(in, start, q, n, lo, mid, c)
    ELSE LET p == q + hi IN
         IF p <= Len(in) /\ NotIn(in[p], {COLON, SP})
         THEN rep_token_try(in, start, p + 1, n, 0, Run(in, p + 1, {SP}), c)
         ELSE NoMatch

\* [^\ ]* of a length hi down to lo, from byte p, which ends repetition n + 1
rep_token_try(in, start, p, n, lo, hi, c) ==
    IF lo > hi THEN NoMatch
    ELSE IF lo < hi
         THEN LET mid == (lo + hi) \div 2
                  r == rep_token_try(in, start, p, n, mid + 1, hi, c) IN
              IF r.ok THEN r ELSE rep_token_try(in, start, p, n, lo, mid, c)
    ELSE repetitions(in, start, p + hi, n + 1, c)

RECURSIVE param_spaces_try(_, _, _, _, _)
\* \ + of a length hi down to lo, from byte p, then (?<parameters> ... )
param_spaces_try(in, p, lo, hi, c) ==
    IF lo > hi THEN NoMatch
    ELSE IF lo < hi
         THEN LET mid == (lo + hi) \div 2
                  r == param_spaces_try(in, p, mid + 1, hi, c) IN
              IF r.ok THEN r ELSE param_spaces_try(in, p, lo, mid, c)
    ELSE repetitions(in, p + hi, p + hi, 0, c)

\* (?: \ + (?<parameters> ... ) )? and what follows it
after_command(in, p, c) ==
    LET r == param_spaces_try(in, p, 1, SpaceRun(in, p), c) IN
    IF r.ok THEN r ELSE last_group(in, p, c)

RECURSIVE command_try(_, _, _, _, _)
\* (?<command>[^\ ]+) of a length hi down to lo, from byte p
command_try(in, p, lo, hi, c) ==
    IF lo > hi THEN NoMatch
    ELSE IF lo < hi
         THEN LET mid == (lo + hi) \div 2
                  r == command_try(in, p, mid + 1, hi, c) IN
              IF r.ok THEN r ELSE command_try(in, p, lo, mid, c)
    ELSE after_command(in, p + hi, [c EXCEPT !.command = Some(SubSeq(in, p, p + hi - 1))])

match_command(in, p, c) == command_try(in, p, 1, Run(in, p, {SP}), c)

RECURSIVE prefix_spaces_try(_, _, _, _, _)
\* the \ + that ends the prefix, of a length hi down to lo, from byte p
prefix_spaces_try(in, p, lo, hi, c) ==
    IF lo > hi THEN NoMatch
    ELSE IF lo < hi
         THEN LET mid == (lo + hi) \div 2
                  r == prefix_spaces_try(in, p, mid + 1, hi, c) IN
              IF r.ok THEN r ELSE prefix_spaces_try(in, p, lo, mid, c)
    ELSE match_command(in, p + hi, c)

RECURSIVE server_try(_, _, _, _, _)
\* (?<server>[^\ ]+) of a length hi down to lo, from byte p
server_try(in, p, lo, hi, c) ==
    IF lo > hi THEN NoMatch
    ELSE IF lo < hi
         THEN LET mid == (lo + hi) \div 2
                  r == server_try(in, p, mid + 1, hi, c) IN
              IF r.ok THEN r ELSE server_try(in, p, lo, mid, c)
    ELSE LET q == p + hi IN
         prefix_spaces_try(in, q, 1, SpaceRun(in, q),
                           [c EXCEPT !.server = Some(SubSeq(in, p, q - 1))])

RECURSIVE user_try(_, _, _, _, _)
\* (?<user>[^@]+) of a length hi down to lo, from byte p, then @
user_try(in, p, lo, hi, c) ==
    IF lo > hi THEN NoMatch
    ELSE IF lo < hi
         THEN LET mid == (lo + hi) \div 2
                  r == user_try(in, p, mid + 1, hi, c) IN
              IF r.ok THEN r ELSE user_try(in, p, lo, mid, c)
    ELSE LET q == p + hi IN
         IF q <= Len(in) /\ in[q] = AT
         THEN server_try(in, q + 1, 1, Run(in, q + 1, {SP}),
                         [c EXCEPT !.user = Some(SubSeq(in, p, q - 1))])
         ELSE NoMatch

RECURSIVE nick_try(_, _, _, _, _)
\* (?<nick>[^!]+) of a length hi down to lo, from byte p, then !
nick_try(in, p, lo, hi, c) ==
    IF lo > hi THEN NoMatch
    ELSE IF lo < hi
         THEN LET mid == (lo + hi) \div 2
                  r == nick_try(in, p, mid + 1, hi, c) IN
              IF r.ok THEN r ELSE nick_try(in, p, lo, mid, c)
    ELSE LET q == p + hi IN
         IF q <= Len(in) /\ in[q] = BANG
         THEN user_try(in, q + 1, 1, Run(in, q + 1, {AT}),
                       [c EXCEPT !.nick = Some(SubSeq(in, p, q - 1))])
         ELSE NoMatch

RECURSIVE serverprefix_try(_, _, _, _, _)
\* (?<serverprefix>[^\ ]+) of a length hi down to lo, from byte p
serverprefix_try(in, p, lo, hi, c) ==
    IF lo > hi THEN NoMatch
    ELSE IF lo < hi
         THEN LET mid == (lo + hi) \div 2
                  r == serverprefix_try(in, p, mid + 1, hi, c) IN
              IF r.ok THEN r ELSE serverprefix_try(in, p, lo, mid, c)
    ELSE LET q == p + hi IN
         prefix_spaces_try(in, q, 1, SpaceRun(in, q),
                           [c EXCEPT !.serverprefix = Some(SubSeq(in, p, q - 1))])

\* (?: : (?: nick!user@server | serverprefix ) \ + )? and what follows it
match_prefix(in) ==
    IF Len(in) >= 1 /\ in[1] = COLON
    THEN LET u == nick_try(in, 2, 1, Run(in, 2, {BANG}), NoCaptures) IN
         IF u.ok THEN u
         ELSE serverprefix_try(in, 2, 1, Run(in, 2, {SP}), NoCaptures)
    ELSE NoMatch

\* R.captures(input): the match of R at the start of the input, or NoMatch
R_captures(in) ==
    LET r == match_prefix(in) IN
    IF r.ok THEN r ELSE match_command(in, 1, NoCaptures)

---------------------------------------------------------------------------
(* Message::parse.                                                         *)

\* String::from_utf8_lossy: an ASCII byte is kept, a byte that is no UTF-8 becomes
\* U+FFFD, the three bytes EF BF BD
from_utf8_lossy(bs) ==
    Concat([i \in 1..Len(bs) |-> IF bs[i] < 128 THEN << bs[i] >> ELSE << 239, 191, 189 >>])

\* fn cap: the named capture as a String, when the group took part in the match
cap(c) == IF c = None THEN None ELSE Some(from_utf8_lossy(Unwrap(c)))

IsDigit(b) == b >= ZERO /\ b <= ZERO + 9

RECURSIVE DecimalValue(_, _)
\* the digits ds read as a number after acc, None once it no longer fits a u16
DecimalValue(ds, acc) ==
    IF ds = << >> THEN Some(acc)
    ELSE LET v == acc * 10 + (Head(ds) - ZERO) IN
         IF v > U16Max THEN None ELSE DecimalValue(Tail(ds), v)

\* str::parse::<u16>: an optional '+', then one or more digits, the value at most
\* 65535; anything else is an error
parse_u16(s) ==
    LET ds == IF Len(s) >= 1 /\ s[1] = PLUS THEN Tail(s) ELSE s IN
    IF ds = << >> \/ (\E i \in 1..Len(ds) : ~IsDigit(ds[i])) THEN None
    ELSE DecimalValue(ds, 0)

\* c.parse().map_or(Command::General(c), Command::Numeric)
command_of(c) ==
    LET n == parse_u16(c) IN
    IF n = None THEN General(c) ELSE Numeric(Unwrap(n))

IsAsciiWhitespace(b) == b \in {SP, TAB, LF, FF, CR}

RECURSIVE split_ascii_whitespace(_)
\* str::split_ascii_whitespace: the maximal runs of bytes that are no ASCII whitespace
split_ascii_whitespace(s) ==
    IF s = << >> THEN << >>
    ELSE IF IsAsciiWhitespace(Head(s)) THEN split_ascii_whitespace(Tail(s))
    ELSE LET stops == {i \in 1..Len(s) : IsAsciiWhitespace(s[i])}
             n == IF stops = {} THEN Len(s)
                  ELSE Least(stops) - 1 IN
         << SubSeq(s, 1, n) >> \o split_ascii_whitespace(Drop(s, n))

\* input.windows(2).position(|w| w == b"\r\n"): the 0-based index of the first CRLF
first_crlf(in) ==
    LET hits == {i \in 1..(Len(in) - 1) : in[i] = CR /\ in[i + 1] = LF} IN
    IF hits = {} THEN None
    ELSE Some(Least(hits) - 1)

\* too_long with the bound off by one: a line of exactly 510 bytes is refused
too_long_from_510(size) == size >= MaxContentLen

\* the test `size > 510` of parse
too_long(size) == size > MaxContentLen

\* the second component of the pair parse returns
consumed(size) == size

\* the Message parse builds from the captures of R
message_of(c) ==
    new_unchecked(
        IF cap(c.nick) # None
        THEN Some(User(Unwrap(cap(c.nick)), Unwrap(cap(c.user)), Unwrap(cap(c.server))))
        ELSE IF cap(c.serverprefix) # None THEN Some(Server(Unwrap(cap(c.serverprefix))))
        ELSE None,
        command_of(Unwrap(cap(c.command))),
        IF cap(c.parameters) # None
        THEN Some(split_ascii_whitespace(Unwrap(cap(c.parameters))))
        ELSE None,
        cap(c.lastparam))

\* Message::parse: Ok(None), Ok(Some((message, size))) or Err
parse(in) ==
    LET at == first_crlf(in) IN
    IF at = None THEN Ok(None)
    ELSE LET size == Unwrap(at) IN
         IF too_long(size) THEN Err("MessageTooLong")
         ELSE LET m == R_captures(in) IN
              IF m.ok /\ m.end > 0
              THEN Ok(Some([message |-> message_of(m.caps), size |-> consumed(size)]))
              ELSE Err("Parsing")

---------------------------------------------------------------------------
(* The inputs: the bounds of the model and the sets the initial states draw *)
(* from.                                                                    *)

\* the longest buffer of the exhaustive set of buffers handed to parse
MaxLen == 4
\* the most frames the peer sends before it closes
MaxFrames == 2
\* the most messages receive() is called to return
MaxCalls == 3
\* read_buf returns at most MaxChunk bytes, or all the bytes the peer has sent
MaxChunk == 4

\* The wire format of a message (RFC 1459 2.3.1, spec section 6):
\* [':' prefix SP] command {SP middle} [SP ':' trailing] CRLF
wire_format(m) ==
    (IF m.prefix = None THEN << >>
     ELSE LET p == Unwrap(m.prefix) IN
          IF p.kind = "Server" THEN << COLON >> \o p.name \o << SP >>
          ELSE << COLON >> \o p.nickname \o << BANG >> \o p.user \o << AT >>
               \o p.server \o << SP >>)
    \o (IF m.command.kind = "Numeric" THEN Concat(format_03(m.command.n))
        ELSE m.command.text)
    \o (IF m.parameters = None THEN << >>
        ELSE LET ps == Unwrap(m.parameters) IN
             Concat([i \in 1..Len(ps) |-> << SP >> \o ps[i]]))
    \o (IF m.last_parameter = None THEN << >>
        ELSE << SP, COLON >> \o Unwrap(m.last_parameter))
    \o CRLF

\* the messages of the frames a peer sends
FrameMessages ==
    { new_unchecked(None, General(<< LetterA >>), None, None),
      new_unchecked(Some(Server(<< LetterB >>)), Numeric(1), Some(<< << LetterA >> >>), None),
      new_unchecked(Some(User(<< LetterA >>, << LetterB >>, << LetterQ >>)),
                    General(<< LetterB >>), None, Some(<< LetterA, SP, LetterB >>)),
      new_unchecked(None, General(<< LetterB >>),
                    Some(<< << LetterA >>, << LetterB >> >>), Some(<< >>)) }

\* what a peer sends before it closes: up to MaxFrames frames, ...
FrameWires ==
    { [bytes |-> Concat([i \in 1..Len(ms) |-> wire_format(ms[i])]), expected |-> Some(ms)] :
      ms \in UNION { [1..n -> FrameMessages] : n \in 0..MaxFrames } }

\* ... or bytes that are no sequence of frames: an unterminated line, a line the
\* grammar rejects, a line of 511 bytes, a frame and then an unterminated line
OtherWires ==
    { [bytes |-> b, expected |-> None] :
      b \in { << LetterA >>,
              << SP, LetterA >> \o CRLF,
              Repeat(LetterA, MaxContentLen + 1) \o CRLF,
              << LetterA >> \o CRLF \o << LetterB >> } }

Wires == FrameWires \cup OtherWires

\* the arguments Message::new, new_unchecked and to_bytes are tried on
PrefixInputs ==
    { None,
      Some(Server(<< LetterA >>)),
      Some(Server(<< LetterA, SP >>)),
      Some(User(<< LetterA >>, << LetterB >>, << LetterA >>)),
      Some(User(<< LetterA >>, << LetterB, CR >>, << LetterA >>)) }

CommandInputs ==
    { General(<< LetterA >>),
      General(<< LetterA, SP, LetterB >>),
      General(<< ZERO, ZERO, DigitOne >>),
      Numeric(1),
      Numeric(1000) }

ParameterInputs ==
    { None,
      Some(<< >>),
      Some(<< << LetterA >> >>),
      Some(<< << LetterA >>, << LetterB >> >>),
      Some(<< << COLON, LetterA >> >>),
      Some(<< << LetterA, SP, LetterB >> >>),
      Some([i \in 1..MaxParameters |-> << LetterA >>]),
      Some([i \in 1..(MaxParameters + 1) |-> << LetterA >>]) }

\* short last parameters, and long ones that bring the message to about 512 bytes
LastInputs ==
    { None,
      Some(<< >>),
      Some(<< LetterA >>),
      Some(<< LetterA, SP, LetterB >>),
      Some(<< LetterA, CR, LF >>),
      Some(<< CR >>) }
    \cup { Some(Repeat(LetterQ, k)) : k \in (MaxMessageLen - 12)..(MaxMessageLen - 4) }

MessageInputs ==
    { new_unchecked(p, c, ps, l) :
      p \in PrefixInputs, c \in CommandInputs, ps \in ParameterInputs, l \in LastInputs }

\* the bytes of the exhaustive buffers
Alphabet == { LetterA, SP, COLON, BANG, AT, CR, LF }

\* every buffer of at most MaxLen bytes of the alphabet
ShortBuffers == UNION { [1..n -> Alphabet] : n \in 0..MaxLen }

\* what may follow a frame in a buffer: nothing, or another frame
Tails == { << >>, << LetterB >> \o CRLF }

\* lines of 509 to 512 bytes before their CRLF, and long buffers with no CRLF
BoundaryBuffers ==
    { Repeat(LetterA, k) \o CRLF \o t :
      k \in (MaxContentLen - 1)..(MaxContentLen + 2), t \in Tails }
    \cup { Repeat(LetterA, k) : k \in {MaxContentLen + 1, MaxMessageLen + 1} }
    \cup { << LetterA, SP, COLON >> \o Repeat(LetterQ, MaxContentLen - 3) \o CRLF }

\* the i-th token of a line of many parameters: a, b, c, ...
Token(i) == << 96 + i >>

\* the line "C t1 t2 ... tn", its 15th token colon-prefixed when `colon`
ManyParameters(n, colon) ==
    << LetterA >>
    \o Concat([i \in 1..n |->
                  << SP >> \o (IF colon /\ i = MaxParameters + 1 THEN << COLON >> ELSE << >>)
                  \o Token(i)])

\* lines of 13 to 17 tokens after the command
OverflowBuffers ==
    { ManyParameters(n, colon) \o CRLF \o t :
      n \in (MaxParameters - 1)..(MaxParameters + 3), colon \in BOOLEAN, t \in Tails }

\* commands of digits, and bytes that are no UTF-8
OddBuffers ==
    { b \o CRLF :
      b \in { << ZERO, ZERO, DigitOne >>,
              << PLUS, DigitOne >>,
              << DigitOne, ZERO, ZERO, ZERO >>,
              << ZERO + 6, ZERO + 5, ZERO + 5, ZERO + 3, ZERO + 6 >>,
              << LetterA, BadByte >>,
              << LetterA, SP, BadByte >> } }
    \cup { << BadByte >>, << BadByte, CR >> }

Buffers == ShortBuffers \cup BoundaryBuffers \cup OverflowBuffers \cup OddBuffers

---------------------------------------------------------------------------
(* Transport::receive (src/pienirc-tokio/src/lib.rs).                      *)
(* One call of receive() runs from "parse" (the top of its loop) and        *)
(* suspends only in "read", at stream.read_buf(..).await.  The peer's bytes *)
(* are all in `stream` from the start and the peer closes after the last:   *)
(* read_buf returns any non-empty prefix of what is left, and 0 at the end. *)

\* what the `if let` of the loop sees of Message::parse's result
parse_kind(r) ==
    IF ~r.ok THEN r.error
    ELSE IF r.value = None THEN "incomplete" ELSE "message"

\* the `if let Ok(Some((message, size)))` arm is taken
is_message(r) == r.ok /\ r.value # None

\* zero_read_outcome without the is_empty test: every close is a clean one
zero_read_always_end(buf) == "StreamEnd"

\* what receive() returns once read_buf has returned 0
zero_read_outcome(buf) == IF buf = << >> THEN "StreamEnd" ELSE "ConnectionReset"

\* the counts read_buf may return
read_sizes(s) ==
    IF s = << >> THEN {0} ELSE {n \in 1..Len(s) : n <= MaxChunk \/ n = Len(s)}

\* the caller calls receive()
ReceiveCall ==
    /\ pc = "idle"
    /\ Len(delivered) < MaxCalls
    /\ pc' = "parse"
    /\ parsed' = "none"
    /\ nread' = -1
    /\ result' = "pending"
    /\ UNCHANGED << stream, read_buffer, delivered, expected,
                    args, newResult, wire, input, parseResult >>

\* the top of the loop: Message::parse(&self.read_buffer), and on Ok(Some(..))
\* read_buffer.advance(size) and return Ok(Some(message))
ReceiveParse ==
    /\ pc = "parse"
    /\ LET r == parse(read_buffer) IN
       /\ parsed' = parse_kind(r)
       /\ IF is_message(r)
          THEN /\ read_buffer' = Drop(read_buffer, Unwrap(r.value).size)
               /\ delivered' = Append(delivered, Unwrap(r.value).message)
               /\ result' = "Message"
               /\ pc' = "idle"
          ELSE /\ pc' = "read"
               /\ UNCHANGED << read_buffer, delivered, result >>
    /\ UNCHANGED << stream, nread, expected, args, newResult, wire, input, parseResult >>

\* stream.read_buf(&mut self.read_buffer).await returns Ok(n)
ReceiveRead ==
    /\ pc = "read"
    /\ \E n \in read_sizes(stream) :
        /\ nread' = n
        /\ read_buffer' = read_buffer \o SubSeq(stream, 1, n)
        /\ stream' = Drop(stream, n)
        /\ IF n = 0
           THEN /\ result' = zero_read_outcome(read_buffer)
                /\ pc' = "idle"
           ELSE /\ pc' = "parse"
                /\ UNCHANGED result
    /\ UNCHANGED << parsed, delivered, expected, args, newResult, wire, input, parseResult >>

\* stream.read_buf(..).await returns Err: the `?` returns it
ReceiveReadError ==
    /\ pc = "read"
    /\ result' = "IoError"
    /\ pc' = "idle"
    /\ UNCHANGED << stream, read_buffer, parsed, nread, delivered, expected,
                    args, newResult, wire, input, parseResult >>

---------------------------------------------------------------------------
(* The codec's callers: Message::new, to_bytes and parse, each applied once *)
(* to the inputs the initial state draws.                                   *)

\* Message::new(prefix, command, parameters, last_parameter)
CallNew ==
    /\ args # None /\ newResult = None
    /\ LET a == Unwrap(args) IN
       newResult' = Some(Message_new(a.prefix, a.command, a.parameters, a.last_parameter))
    /\ UNCHANGED << stream, read_buffer, pc, parsed, nread, result, delivered, expected,
                    args, wire, input, parseResult >>

\* Message::new_unchecked(..).to_bytes()
CallToBytes ==
    /\ args # None /\ wire = None
    /\ LET a == Unwrap(args) IN
       wire' = Some(to_bytes(new_unchecked(a.prefix, a.command, a.parameters, a.last_parameter)))
    /\ UNCHANGED << stream, read_buffer, pc, parsed, nread, result, delivered, expected,
                    args, newResult, input, parseResult >>

\* Message::parse(&bytes) of the bytes to_bytes returned
CallParseWire ==
    /\ wire # None /\ Unwrap(wire).ok
    /\ input = None
    /\ input' = Some(Unwrap(wire).value.bytes)
    /\ parseResult' = Some(parse(Unwrap(wire).value.bytes))
    /\ UNCHANGED << stream, read_buffer, pc, parsed, nread, result, delivered, expected,
                    args, newResult, wire >>

\* Message::parse(input) of a buffer
CallParse ==
    /\ input # None /\ parseResult = None
    /\ parseResult' = Some(parse(Unwrap(input)))
    /\ UNCHANGED << stream, read_buffer, pc, parsed, nread, result, delivered, expected,
                    args, newResult, wire, input >>

---------------------------------------------------------------------------
(* The specifications.                                                     *)

TransportIdle ==
    /\ read_buffer = << >>
    /\ pc = "idle"
    /\ parsed = "none"
    /\ nread = -1
    /\ result = "none"
    /\ delivered = << >>

CodecIdle ==
    /\ args = None
    /\ newResult = None
    /\ wire = None
    /\ input = None
    /\ parseResult = None

\* A Transport on a connection over which the peer sends one of Wires.
Init ==
    /\ \E w \in Wires : stream = w.bytes /\ expected = w.expected
    /\ TransportIdle
    /\ CodecIdle

Next ==
    \/ ReceiveCall
    \/ ReceiveParse
    \/ ReceiveRead
    \/ ReceiveReadError

Spec == Init /\ [][Next]_vars

\* The codec on its own: one message to construct and serialize, or one buffer to
\* parse.
CodecInit ==
    /\ stream = << >> /\ expected = None
    /\ TransportIdle
    /\ newResult = None /\ wire = None /\ parseResult = None
    /\ \/ args \in { Some(m) : m \in MessageInputs } /\ input = None
       \/ args = None /\ input \in { Some(b) : b \in Buffers }

CodecNext ==
    \/ CallNew
    \/ CallToBytes
    \/ CallParseWire
    \/ CallParse

CodecSpec == CodecInit /\ [][CodecNext]_vars

---------------------------------------------------------------------------
(* The claims.                                                             *)

\* the buffer has a CRLF at 0-based index k
CrlfAt(in, k) == k + 2 <= Len(in) /\ in[k + 1] = CR /\ in[k + 2] = LF

\* the first CRLF of the buffer is at 0-based index k
FirstCrlfAt(in, k) == CrlfAt(in, k) /\ \A j \in 0..(k - 1) : ~CrlfAt(in, j)

HasCrlf(in) == \E k \in 0..Len(in) : CrlfAt(in, k)

IsPrefixOf(a, b) == Len(a) <= Len(b) /\ SubSeq(b, 1, Len(a)) = a

\* the message and the count of a parse result that is Ok(Some(..))
ParsedMessage(r) == Unwrap(r.value).message
ParsedSize(r) == Unwrap(r.value).size

\* C1: whenever Message::parse returns a message, the count it returns with it is
\* the length of the frame with its CRLF: the index of the first CRLF plus 2.
C1_ConsumedIncludesCrlf ==
    (parseResult # None /\ is_message(Unwrap(parseResult)))
    => \A k \in 0..Len(Unwrap(input)) :
         FirstCrlfAt(Unwrap(input), k) => ParsedSize(Unwrap(parseResult)) = k + 2

\* C2: for every message Message::new accepts, to_bytes succeeds and parsing its
\* bytes gives back the same message and consumes all of them.
C2_RoundTrip ==
    (newResult # None /\ Unwrap(newResult).ok /\ wire # None)
    => /\ Unwrap(wire).ok
       /\ parseResult # None
          => Unwrap(parseResult)
             = Ok(Some([message |-> Unwrap(newResult).value,
                        size |-> Len(Unwrap(wire).value.bytes)]))

\* C3: receive() reads from the stream only after parse reported "incomplete",
\* never after parse failed.
C3_ReadOnlyWhenIncomplete == pc = "read" => parsed = "incomplete"

\* C4: once a read has returned zero bytes, receive() has returned: end-of-stream
\* if the buffer is empty, ConnectionReset if it is not (and then the buffer holds
\* no parseable message); it has not returned a message and is not looping.
C4_ZeroReadTerminates ==
    nread = 0
    => /\ pc = "idle"
       /\ read_buffer = << >> => result = "StreamEnd"
       /\ read_buffer # << >>
          => result = "ConnectionReset" /\ ~is_message(parse(read_buffer))

\* a zero-byte read on a buffer that holds part of a line, after a message was
\* delivered
C4_Witness ==
    nread = 0 /\ result = "ConnectionReset" /\ read_buffer # << >> /\ delivered # << >>

\* C5: to_bytes fails with MessageTooLong exactly when the encoded message is
\* longer than 512 bytes, and otherwise returns bytes whose length is calc_len, at
\* most 512, with a capacity equal to the length.
C5_LengthAccounting ==
    wire # None
    => LET a == Unwrap(args)
           w == Unwrap(wire)
           len == calc_len(a.prefix, a.command, a.parameters, a.last_parameter) IN
       /\ ~w.ok <=> Len(Concat(pieces(a))) > MaxMessageLen
       /\ ~w.ok => w.error = "MessageTooLong"
       /\ w.ok => /\ Len(w.value.bytes) = len
                  /\ Len(w.value.bytes) <= MaxMessageLen
                  /\ w.value.capacity = Len(w.value.bytes)

\* C6: the bytes to_bytes returns are the prefix, one space after either prefix
\* form, the command, each middle parameter after one space, the last parameter
\* after " :", and CRLF.
C6_WireRendering ==
    (wire # None /\ Unwrap(wire).ok)
    => Unwrap(wire).value.bytes = wire_format(Unwrap(args))

\* The content of a line as the wire format has it: a command, before it perhaps
\* a colon-prefixed prefix, after it middle parameters, each token after a single
\* space, and perhaps " :" and a trailing parameter; no CR, LF or non-ASCII byte.
Grammatical(content) ==
    LET marks == {i \in 1..(Len(content) - 1) : content[i] = SP /\ content[i + 1] = COLON}
        head == IF marks = {} THEN content ELSE SubSeq(content, 1, Least(marks) - 1) IN
    /\ \A i \in 1..Len(content) : content[i] < 128 /\ content[i] \notin {CR, LF}
    /\ head # << >>
    /\ head[1] # SP /\ head[Len(head)] # SP
    /\ \A i \in 1..(Len(head) - 1) : ~(head[i] = SP /\ head[i + 1] = SP)
    /\ head[1] = COLON => (Len(head) >= 2 /\ head[2] # SP /\ Contains(head, SP))

RestOfLine(n) ==
    Concat([j \in 1..(n - MaxParameters) |->
               (IF j > 1 THEN << SP >> ELSE << >>) \o Token(MaxParameters + j)])

\* C8: parse never returns more than 14 middle parameters; of a line of more than
\* 14 tokens the middle parameters are the first 14 and the last parameter is the
\* rest of the line, with or without a colon before the 15th token.
C8_ParameterOverflow ==
    (parseResult # None /\ is_message(Unwrap(parseResult)))
    => LET m == ParsedMessage(Unwrap(parseResult)) IN
       /\ m.parameters # None => Len(Unwrap(m.parameters)) <= MaxParameters
       /\ \A n \in (MaxParameters + 1)..(MaxParameters + 3), colon \in BOOLEAN :
            IsPrefixOf(ManyParameters(n, colon) \o CRLF, Unwrap(input))
            => /\ m.parameters = Some([i \in 1..MaxParameters |-> Token(i)])
               /\ m.last_parameter = Some(RestOfLine(n))

\* Message::new as C9 has it: the checks in the order prefix, command, middle
\* parameters, last parameter, length, each failing with the error of its field.
ClaimedNew(a) ==
    LET bad_prefix == a.prefix # None /\
                      LET p == Unwrap(a.prefix) IN
                      IF p.kind = "Server" THEN sp(p.name)
                      ELSE sp(p.nickname) \/ sp(p.user) \/ sp(p.server)
        bad_command == a.command.kind = "General" /\ sp(a.command.text)
        bad_parameters == a.parameters # None /\
                          LET ps == Unwrap(a.parameters) IN
                          \/ \E i \in 1..Len(ps) : sp(ps[i]) \/ starts_with_colon(ps[i])
                          \/ Len(ps) > MaxParameters
        bad_last == a.last_parameter # None /\ contains_crlf(Unwrap(a.last_parameter)) IN
    IF bad_prefix THEN Err("PrefixValidation")
    ELSE IF bad_command THEN Err("CommandValidation")
    ELSE IF bad_parameters THEN Err("SimpleParameterValidation")
    ELSE IF bad_last THEN Err("LastParameterValidation")
    ELSE IF calc_len(a.prefix, a.command, a.parameters, a.last_parameter) > MaxMessageLen
         THEN Err("MessageTooLong")
    ELSE Ok(a)

\* C9: Message::new fails with the error of the first violated check, the error
\* naming the field that violated, and returns the message when none is.
C9_NewChecks == newResult # None => Unwrap(newResult) = ClaimedNew(Unwrap(args))

\* C10: when the peer sends complete frames and closes, the receive() calls return
\* the frames' messages in order, each once, and then end-of-stream, never
\* ConnectionReset.
C10_InOrderDelivery ==
    expected # None
    => /\ IsPrefixOf(delivered, Unwrap(expected))
       /\ result # "ConnectionReset"
       /\ result = "StreamEnd" => delivered = Unwrap(expected)

\* the byte strings a message holds: prefix components, a General command's text,
\* the middle parameters and the last parameter
FieldsOf(m) ==
    (IF m.prefix = None THEN {}
     ELSE LET p == Unwrap(m.prefix) IN
          IF p.kind = "Server" THEN {p.name} ELSE {p.nickname, p.user, p.server})
    \cup (IF m.command.kind = "General" THEN {m.command.text} ELSE {})
    \cup (IF m.parameters = None THEN {}
          ELSE {Unwrap(m.parameters)[i] : i \in 1..Len(Unwrap(m.parameters))})
    \cup m.last_parameter

\* the buffer cut after its first CRLF
FirstFrame(in) == SubSeq(in, 1, Least({k \in 0..Len(in) : CrlfAt(in, k)}) + 2)

\* C11: a message parse returns is built from the bytes up to the first CRLF of
\* the buffer only: none of its fields contains CR or LF, and the buffer cut
\* after its first CRLF parses to the same message and the same consumed count.
C11_FirstFrameOnly ==
    (parseResult # None /\ is_message(Unwrap(parseResult)))
    => /\ \A f \in FieldsOf(ParsedMessage(Unwrap(parseResult))) :
            ~Contains(f, CR) /\ ~Contains(f, LF)
       /\ parse(FirstFrame(Unwrap(input))) = Unwrap(parseResult)

=============================================================================
